---- MODULE Spec2Model ----
(***************************************************************************)
(* A model of the ckmt SDK: the blocking client CKMT (ckmt/client.py), the *)
(* suspending client AsyncCKMT (ckmt/async_client.py) and the exception    *)
(* hierarchy (ckmt/exceptions.py).                                         *)
(*                                                                         *)
(* Text is modelled as a sequence of tokens: the token "/" is the slash    *)
(* character, every other token is a slash-free piece of text.  An         *)
(* Optional[x] value is a sequence of length at most one: <<>> is None,    *)
(* <<v>> is the value v.  An argument of a facade operation, which the     *)
(* clients only pass on, is written as text: an int as its numeral.        *)
(***************************************************************************)
EXTENDS Integers, Sequences, FiniteSets, TLC

\* ------------------------------------------------------------------ values

NoneV == <<>>

Some(v) == <<v>>

IsNone(o) == o = <<>>

\* Python truthiness of an Optional[str]: None and "" are falsy.
Truthy(o) == o # NoneV /\ o[1] # <<>>

\* Python's `a or b` on Optional[str] operands.
PyOr(a, b) == IF Truthy(a) THEN a ELSE b

\* os.getenv(name, default): the value when the variable is set, else default.
getenv(env, name, default) == IF IsNone(env[name]) THEN default ELSE env[name]

\* str.rstrip("/"): every trailing slash is removed.
RECURSIVE rstrip(_)
rstrip(s) ==
    IF s = <<>> THEN s
    ELSE IF s[Len(s)] = "/" THEN rstrip(SubSeq(s, 1, Len(s) - 1))
    ELSE s

\* Whether text `part` occurs in text `whole`.
Contains(whole, part) ==
    \E i \in 0..(Len(whole) - Len(part)) :
        SubSeq(whole, i + 1, i + Len(part)) = part

\* How many sessions a run may create.
MaxSessions == 2

\* How many arguments of one call the caller gives.
MaxGiven == 2

\* timeout: int = 30
DEFAULT_TIMEOUT == 30

DEFAULT_BASE_URL == <<"https:", "/", "/", "api.ckmt.io">>

\* ------------------------------------------------------------- exceptions

\* The direct base class of each exception class the clients can meet:
\* ckmt/exceptions.py, requests.exceptions, aiohttp and the builtins.
Base(c) ==
    CASE c = "AuthenticationError" -> "APIError"
      [] c = "RateLimitError" -> "APIError"
      [] c = "NotFoundError" -> "APIError"
      [] c = "ValidationError" -> "APIError"
      [] c = "APIError" -> "CKMTError"
      [] c = "CKMTError" -> "Exception"
      [] c = "ConnectionError" -> "RequestException"
      [] c = "ReadTimeout" -> "Timeout"
      [] c = "Timeout" -> "RequestException"
      [] c = "RequestsJSONDecodeError" -> "RequestException"
      [] c = "RequestException" -> "Exception"
      [] c = "ClientConnectorError" -> "ClientError"
      [] c = "ContentTypeError" -> "ClientError"
      [] c = "ClientError" -> "Exception"
      [] c = "TimeoutError" -> "Exception"
      [] c = "RuntimeError" -> "Exception"
      [] c = "JSONDecodeError" -> "ValueError"
      [] c = "ValueError" -> "Exception"
      [] OTHER -> "Exception"

RECURSIVE IsSubclass(_, _)
IsSubclass(c, b) ==
    IF c = b THEN TRUE
    ELSE IF c = "Exception" THEN FALSE
    ELSE IsSubclass(Base(c), b)

\* An outcome of a call: it returns a value or raises an exception.
Raise(exc, message, status_code, response) ==
    [tag |-> "raise", exc |-> exc, message |-> message,
     status_code |-> status_code, response |-> response, value |-> NoneV]

Return(value) ==
    [tag |-> "return", exc |-> "", message |-> <<>>,
     status_code |-> NoneV, response |-> NoneV, value |-> value]

\* APIError.__init__(message, status_code=None, response=None)
APIError(cls, message, status_code, response) ==
    Raise(cls, message, status_code, response)

\* ------------------------------------------------------------------- JSON

JsonStrings == {"\"total\"", "\"matches\"", "\"detail\""}

JsonScalars == {"42", "0", "null"} \cup JsonStrings

JsonWhitespace == {" "}

\* A recursive-descent recogniser of JSON over whitespace-free tokens: the
\* index after the value that starts at s[i], or 0 when there is none.
RECURSIVE ParseValue(_, _), ParseElems(_, _), ParseMembers(_, _)
ParseValue(s, i) ==
    IF i > Len(s) THEN 0
    ELSE IF s[i] \in JsonScalars THEN i + 1
    ELSE IF s[i] = "[" THEN
        IF i + 1 <= Len(s) /\ s[i + 1] = "]" THEN i + 2 ELSE ParseElems(s, i + 1)
    ELSE IF s[i] = "{" THEN
        IF i + 1 <= Len(s) /\ s[i + 1] = "}" THEN i + 2 ELSE ParseMembers(s, i + 1)
    ELSE 0

ParseElems(s, i) ==
    LET j == ParseValue(s, i) IN
    IF j = 0 \/ j > Len(s) THEN 0
    ELSE IF s[j] = "]" THEN j + 1
    ELSE IF s[j] = "," THEN ParseElems(s, j + 1)
    ELSE 0

ParseMembers(s, i) ==
    IF i + 1 > Len(s) THEN 0
    ELSE IF s[i] \notin JsonStrings \/ s[i + 1] # ":" THEN 0
    ELSE LET j == ParseValue(s, i + 2) IN
         IF j = 0 \/ j > Len(s) THEN 0
         ELSE IF s[j] = "}" THEN j + 1
         ELSE IF s[j] = "," THEN ParseMembers(s, j + 1)
         ELSE 0

IsNotWhitespace(tok) == tok \notin JsonWhitespace

\* str.strip() of a body: whether anything but whitespace is left.
IsBlank(text) == SelectSeq(text, IsNotWhitespace) = <<>>

\* json.loads(text): Some(structure) for a JSON document, None when the text
\* is not one (the decoder raises).  The decoded structure is written as the
\* document's tokens without insignificant whitespace.
json_loads(text) ==
    LET s == SelectSeq(text, IsNotWhitespace) IN
    IF s # <<>> /\ ParseValue(s, 1) = Len(s) + 1 THEN Some(s) ELSE NoneV

\* --------------------------------------------------------- transport events

\* What the network hands back for one request: a response, or a failure of
\* the transport with its cause.
Response(status, text, json_ctype) ==
    [tag |-> "response", status |-> status, text |-> text,
     json_ctype |-> json_ctype, cause |-> ""]

Failure(cause) ==
    [tag |-> "failure", status |-> 0, text |-> <<>>,
     json_ctype |-> FALSE, cause |-> cause]

Causes == {"connection refused", "dns failure", "timeout"}

\* str(e) of the exception a transport raises for a cause.
Describe(cause) == <<cause>>

\* The exception requests raises for a transport failure: every one of them
\* derives from requests.exceptions.RequestException.
requests_exception(cause) ==
    IF cause = "timeout" THEN "ReadTimeout" ELSE "ConnectionError"

\* The exception aiohttp raises for a transport failure.  Expiry of
\* ClientTimeout(total=...) surfaces as asyncio.TimeoutError, which is no
\* aiohttp.ClientError; connection and DNS failures are ClientConnectorError.
aiohttp_exception(cause) ==
    IF cause = "timeout" THEN "TimeoutError" ELSE "ClientConnectorError"

\* ------------------------------------------------------- Request Executor

\* requests' Response.json(): json.loads of the body, and
\* requests.exceptions.JSONDecodeError when the body is no JSON document.
requests_json(response) ==
    IF IsNone(json_loads(response.text)) THEN
        Raise("RequestsJSONDecodeError", <<"Expecting value">>, NoneV, NoneV)
    ELSE Return(json_loads(response.text)[1])

\* A client that returns the body's text instead of decoding it.
CKMT_result_text(response) == Return(response.text)

\* client.py line 82: return response.json()
CKMT_result(response) == requests_json(response)

\* client.py lines 66-82: the status mapping, then the result.
CKMT_handle_response(response) ==
    IF response.status = 401 THEN
        APIError("AuthenticationError", <<"Invalid API key">>, Some(401), Some(response.text))
    ELSE IF response.status = 404 THEN
        APIError("NotFoundError", <<"Resource not found">>, Some(404), Some(response.text))
    ELSE IF response.status = 429 THEN
        APIError("RateLimitError", <<"Rate limit exceeded">>, Some(429), Some(response.text))
    ELSE IF response.status = 422 THEN
        APIError("ValidationError", <<"Validation error">>, Some(422), Some(response.text))
    ELSE IF response.status >= 400 THEN
        APIError("APIError", <<"API error: ">> \o response.text,
                 Some(response.status), Some(response.text))
    ELSE CKMT_result(response)

\* client.py lines 57-82: the body of the try statement.
CKMT_try(event) ==
    IF event.tag = "failure" THEN
        Raise(requests_exception(event.cause), Describe(event.cause), NoneV, NoneV)
    ELSE CKMT_handle_response(event)

\* client.py line 84: which exceptions the except clause catches.
CKMT_catches(exc) == IsSubclass(exc, "RequestException")

\* CKMT._request: the outcome of the call for the transport's event.
CKMT_request(event) ==
    LET r == CKMT_try(event) IN
    IF r.tag = "raise" /\ CKMT_catches(r.exc) THEN
        APIError("APIError", <<"Request failed: ">> \o r.message, NoneV, NoneV)
    ELSE r

\* aiohttp's ClientResponse.json(): ContentTypeError unless the content type
\* is application/json, None for a blank body, else json.loads of the body.
aiohttp_json(response) ==
    IF ~response.json_ctype THEN
        Raise("ContentTypeError", <<"Attempt to decode JSON with unexpected mimetype">>, NoneV, NoneV)
    ELSE IF IsBlank(response.text) THEN Return(<<"None">>)
    ELSE IF IsNone(json_loads(response.text)) THEN
        Raise("JSONDecodeError", <<"Expecting value">>, NoneV, NoneV)
    ELSE Return(json_loads(response.text)[1])

\* async_client.py line 111: return await response.json()
AsyncCKMT_result(response) == aiohttp_json(response)

\* async_client.py lines 93-111: the status mapping, then the result.
AsyncCKMT_handle_response(response) ==
    IF response.status = 401 THEN
        APIError("AuthenticationError", <<"Invalid API key">>, Some(401), Some(response.text))
    ELSE IF response.status = 404 THEN
        APIError("NotFoundError", <<"Resource not found">>, Some(404), Some(response.text))
    ELSE IF response.status = 429 THEN
        APIError("RateLimitError", <<"Rate limit exceeded">>, Some(429), Some(response.text))
    ELSE IF response.status = 422 THEN
        APIError("ValidationError", <<"Validation error">>, Some(422), Some(response.text))
    ELSE IF response.status >= 400 THEN
        APIError("APIError", <<"API error: ">> \o response.text,
                 Some(response.status), Some(response.text))
    ELSE AsyncCKMT_result(response)

\* async_client.py lines 86-111: the body of the try statement.  A request
\* through a closed ClientSession raises RuntimeError("Session is closed").
AsyncCKMT_try(event) ==
    IF event.tag = "closed" THEN
        Raise("RuntimeError", <<"Session is closed">>, NoneV, NoneV)
    ELSE IF event.tag = "failure" THEN
        Raise(aiohttp_exception(event.cause), Describe(event.cause), NoneV, NoneV)
    ELSE AsyncCKMT_handle_response(event)

\* An except clause that catches every exception.
AsyncCKMT_catches_all(exc) == IsSubclass(exc, "Exception")

\* async_client.py line 113: which exceptions the except clause catches.
AsyncCKMT_catches(exc) == IsSubclass(exc, "ClientError")

\* AsyncCKMT._request: the outcome of the call for the transport's event.
AsyncCKMT_request(event) ==
    LET r == AsyncCKMT_try(event) IN
    IF r.tag = "raise" /\ AsyncCKMT_catches(r.exc) THEN
        APIError("APIError", <<"Request failed: ">> \o r.message, NoneV, NoneV)
    ELSE r

\* The event of a request issued through a closed session.
SessionClosed ==
    [tag |-> "closed", status |-> 0, text |-> <<>>, json_ctype |-> FALSE, cause |-> ""]

\* -------------------------------------------------------- Endpoint Facade

\* The arguments of a call bound to the parameters of the signature: a
\* parameter the caller does not give takes its default.
Bind(defaults, given) ==
    [k \in DOMAIN defaults |-> IF k \in DOMAIN given THEN given[k] ELSE defaults[k]]

\* A comprehension that drops every falsy value: `if v`.
DropFalsy(params) ==
    [k \in {n \in DOMAIN params : Truthy(params[n])} |-> params[k][1]]

\* {k: v for k, v in params.items() if v is not None}
DropNone(params) ==
    [k \in {n \in DOMAIN params : params[n] # NoneV} |-> params[k][1]]

\* What a facade operation hands to _request.
RequestArgs(method, endpoint, params) ==
    [method |-> method, endpoint |-> endpoint, params |-> params,
     json |-> NoneV, headers |-> NoneV]

search_defaults ==
    [query |-> NoneV, port |-> NoneV, service |-> NoneV, product |-> NoneV,
     version |-> NoneV, country |-> NoneV, asn |-> NoneV, os |-> NoneV,
     vuln |-> NoneV, http_title |-> NoneV, http_status |-> NoneV,
     technology |-> NoneV, page |-> Some(<<"1">>), size |-> Some(<<"10">>)]

count_defaults == [query |-> NoneV, port |-> NoneV, country |-> NoneV]

facets_defaults ==
    [query |-> NoneV, facets |-> Some(<<"country,port,service,technology">>)]

ports_defaults == [query |-> NoneV, size |-> Some(<<"100">>)]

CKMT_search(a) ==
    LET params == [query |-> a.query, port |-> a.port, service |-> a.service,
                   product |-> a.product, version |-> a.version,
                   country |-> a.country, asn |-> a.asn, os |-> a.os,
                   vuln |-> a.vuln, http_title |-> a.http_title,
                   http_status |-> a.http_status, technology |-> a.technology,
                   page |-> a.page, size |-> a.size]
    IN RequestArgs("GET", <<"/", "v1", "/", "search">>, Some(DropNone(params)))

CKMT_host(a) ==
    RequestArgs("GET", <<"/", "v1", "/", "search", "/", "host", "/">> \o a.ip, NoneV)

CKMT_count(a) ==
    LET params == [query |-> a.query, port |-> a.port, country |-> a.country]
    IN RequestArgs("GET", <<"/", "v1", "/", "search", "/", "count">>, Some(DropNone(params)))

CKMT_facets(a) ==
    LET params == [query |-> a.query, facets |-> a.facets]
    IN RequestArgs("GET", <<"/", "v1", "/", "search", "/", "facets">>, Some(DropNone(params)))

CKMT_ports(a) ==
    LET params == [query |-> a.query, size |-> a.size]
    IN RequestArgs("GET", <<"/", "v1", "/", "search", "/", "ports">>, Some(DropNone(params)))

CKMT_services == RequestArgs("GET", <<"/", "v1", "/", "search", "/", "services">>, NoneV)

CKMT_stats == RequestArgs("GET", <<"/", "v1", "/", "search", "/", "stats">>, NoneV)

\* The facade operation of the blocking client a call names.
CKMT_facade(c) ==
    CASE c.op = "search" -> CKMT_search(Bind(search_defaults, c.given))
      [] c.op = "host" -> CKMT_host(c.given)
      [] c.op = "count" -> CKMT_count(Bind(count_defaults, c.given))
      [] c.op = "facets" -> CKMT_facets(Bind(facets_defaults, c.given))
      [] c.op = "ports" -> CKMT_ports(Bind(ports_defaults, c.given))
      [] c.op = "services" -> CKMT_services
      [] c.op = "stats" -> CKMT_stats

AsyncCKMT_search(a) ==
    LET params == [query |-> a.query, port |-> a.port, service |-> a.service,
                   product |-> a.product, version |-> a.version,
                   country |-> a.country, asn |-> a.asn, os |-> a.os,
                   vuln |-> a.vuln, http_title |-> a.http_title,
                   http_status |-> a.http_status, technology |-> a.technology,
                   page |-> a.page, size |-> a.size]
    IN RequestArgs("GET", <<"/", "v1", "/", "search">>, Some(DropNone(params)))

\* A host lookup that sends the address as a query parameter.
AsyncCKMT_host_as_param(a) ==
    RequestArgs("GET", <<"/", "v1", "/", "search", "/", "host">>, Some([ip |-> a.ip]))

AsyncCKMT_host(a) ==
    RequestArgs("GET", <<"/", "v1", "/", "search", "/", "host", "/">> \o a.ip, NoneV)

AsyncCKMT_count(a) ==
    LET params == [query |-> a.query, port |-> a.port, country |-> a.country]
    IN RequestArgs("GET", <<"/", "v1", "/", "search", "/", "count">>, Some(DropNone(params)))

AsyncCKMT_facets(a) ==
    LET params == [query |-> a.query, facets |-> a.facets]
    IN RequestArgs("GET", <<"/", "v1", "/", "search", "/", "facets">>, Some(DropNone(params)))

AsyncCKMT_ports(a) ==
    LET params == [query |-> a.query, size |-> a.size]
    IN RequestArgs("GET", <<"/", "v1", "/", "search", "/", "ports">>, Some(DropNone(params)))

AsyncCKMT_services == RequestArgs("GET", <<"/", "v1", "/", "search", "/", "services">>, NoneV)

AsyncCKMT_stats == RequestArgs("GET", <<"/", "v1", "/", "search", "/", "stats">>, NoneV)

\* The facade operation of the suspending client a call names.
AsyncCKMT_facade(c) ==
    CASE c.op = "search" -> AsyncCKMT_search(Bind(search_defaults, c.given))
      [] c.op = "host" -> AsyncCKMT_host(c.given)
      [] c.op = "count" -> AsyncCKMT_count(Bind(count_defaults, c.given))
      [] c.op = "facets" -> AsyncCKMT_facets(Bind(facets_defaults, c.given))
      [] c.op = "ports" -> AsyncCKMT_ports(Bind(ports_defaults, c.given))
      [] c.op = "services" -> AsyncCKMT_services
      [] c.op = "stats" -> AsyncCKMT_stats

\* ------------------------------------------------------------------ state

VARIABLES
    environ,      \* os.environ: CKMT_API_KEY and CKMT_BASE_URL, each Optional text
    kind,         \* the class of the client the program constructs
    constructed,  \* "absent", "ok", or "ValueError" when __init__ raised
    ctor,         \* the arguments the constructor was called with (Optional)
    self,         \* the client's fields: api_key, base_url, timeout, session
    sessions,     \* every transport session created so far, by id (its index)
    blocks,       \* the sessions created by the `async with` blocks now open
    exited,       \* for every block exited: the session it created, the error it left with
    task          \* per caller task: the call in progress, its request, how many
                  \* times it has called session.request, and its outcome

vars == <<environ, kind, constructed, ctor, self, sessions, blocks, exited, task>>

Tasks == {"t1", "t2"}

\* A task with no call in progress.
Idle ==
    [pc |-> "idle", call |-> NoneV, req |-> NoneV, sent |-> 0,
     event |-> NoneV, outcome |-> NoneV]

Quiet == \A t \in Tasks : task[t].pc = "idle"

NoSelf == [api_key |-> NoneV, base_url |-> <<>>, timeout |-> 0, session |-> NoneV]

\* requests.Session() / aiohttp.ClientSession(headers=..., timeout=...)
NewSession(api_key, timeout, by) ==
    [open |-> TRUE, Authorization |-> <<"Bearer ">> \o api_key,
     UserAgent |-> <<"ckmt-sdk", "/", "1.0.0">>, timeout |-> timeout, by |-> by]

InitWith(envs) ==
    /\ environ \in envs
    /\ kind = "none"
    /\ constructed = "absent"
    /\ ctor = NoneV
    /\ self = NoSelf
    /\ sessions = <<>>
    /\ blocks = <<>>
    /\ exited = {}
    /\ task = [t \in Tasks |-> Idle]

\* A constructor that prefers the environment's key to the argument's.
init_api_key_env_first(a) == PyOr(getenv(environ, "CKMT_API_KEY", NoneV), a.api_key)

\* self.api_key = api_key or os.getenv("CKMT_API_KEY")
init_api_key(a) == PyOr(a.api_key, getenv(environ, "CKMT_API_KEY", NoneV))

\* A constructor that keeps the base URL as it is given.
init_base_url_unstripped(a) ==
    PyOr(a.base_url, getenv(environ, "CKMT_BASE_URL", Some(DEFAULT_BASE_URL)))[1]

\* (base_url or os.getenv("CKMT_BASE_URL", "https://api.ckmt.io")).rstrip("/")
init_base_url(a) ==
    rstrip(PyOr(a.base_url, getenv(environ, "CKMT_BASE_URL", Some(DEFAULT_BASE_URL)))[1])

\* CKMT.__init__(api_key, base_url, timeout)
CKMT_init(a) ==
    /\ constructed = "absent"
    /\ kind' = "CKMT"
    /\ ctor' = Some(a)
    /\ IF ~Truthy(init_api_key(a)) THEN
          /\ constructed' = "ValueError"
          /\ UNCHANGED <<self, sessions>>
       ELSE
          /\ constructed' = "ok"
          /\ sessions' = Append(sessions, NewSession(init_api_key(a)[1], NoneV, "__init__"))
          /\ self' = [api_key |-> init_api_key(a), base_url |-> init_base_url(a),
                      timeout |-> a.timeout, session |-> Some(Len(sessions) + 1)]
    /\ UNCHANGED <<environ, blocks, exited, task>>

\* AsyncCKMT.__init__(api_key, base_url, timeout)
AsyncCKMT_init(a) ==
    /\ constructed = "absent"
    /\ kind' = "AsyncCKMT"
    /\ ctor' = Some(a)
    /\ IF ~Truthy(init_api_key(a)) THEN
          /\ constructed' = "ValueError"
          /\ UNCHANGED self
       ELSE
          /\ constructed' = "ok"
          /\ self' = [api_key |-> init_api_key(a), base_url |-> init_base_url(a),
                      timeout |-> a.timeout, session |-> NoneV]
    /\ UNCHANGED <<environ, sessions, blocks, exited, task>>

IsAsync == kind = "AsyncCKMT" /\ constructed = "ok"

IsSync == kind = "CKMT" /\ constructed = "ok"

\* session.close(): the session is closed; closing a closed one changes nothing.
CloseSession(ss, id) == [ss EXCEPT ![id].open = FALSE]

\* AsyncCKMT.__aenter__: a new session replaces self.session.
AsyncCKMT_aenter ==
    /\ IsAsync
    /\ Len(sessions) < MaxSessions
    /\ sessions' = Append(sessions, NewSession(self.api_key[1], Some(self.timeout), "__aenter__"))
    /\ self' = [self EXCEPT !.session = Some(Len(sessions) + 1)]
    /\ blocks' = Append(blocks, Len(sessions) + 1)
    /\ UNCHANGED <<environ, kind, constructed, ctor, exited, task>>

\* AsyncCKMT.__aexit__(exc_type, exc_val, exc_tb): the innermost open block
\* is left; by_error tells whether an exception leaves it (exc_type is not
\* None) or it ends normally or by return (exc_type is None).
AsyncCKMT_aexit(by_error) ==
    /\ IsAsync
    /\ blocks # <<>>
    /\ sessions' = IF ~IsNone(self.session) THEN CloseSession(sessions, self.session[1])
                   ELSE sessions
    /\ blocks' = SubSeq(blocks, 1, Len(blocks) - 1)
    /\ exited' = exited \cup {[session |-> blocks[Len(blocks)], by_error |-> by_error]}
    /\ UNCHANGED <<environ, kind, constructed, ctor, self, task>>

\* Whether an exception can leave an `async with` block now: a call made in
\* it has raised.
HasRaised == \E t \in Tasks : task[t].pc = "done" /\ task[t].outcome[1].tag = "raise"

\* AsyncCKMT.close(): `if self.session: await self.session.close()`
AsyncCKMT_close ==
    /\ IsAsync
    /\ sessions' = IF ~IsNone(self.session) THEN CloseSession(sessions, self.session[1])
                   ELSE sessions
    /\ UNCHANGED <<environ, kind, constructed, ctor, self, blocks, exited, task>>

\* The request _request issues: the URL is base_url + endpoint, the
\* session is the client's, as it is when the request is issued.
BuildRequest(r, base_url, timeout, id, ss) ==
    [method |-> r.method, url |-> base_url \o r.endpoint, params |-> r.params,
     json |-> r.json, headers |-> r.headers, timeout |-> timeout,
     session |-> id, session_open |-> ss[id].open]

\* A call of a facade operation on the blocking client, up to the request
\* put on the network (client.py lines 54-64).  The call occupies the
\* calling thread: no other call is in progress.
CKMT_call(t, calls) ==
    /\ IsSync
    /\ Quiet
    /\ \E c \in calls :
         task' = [task EXCEPT ![t] =
                    [pc |-> "awaiting", call |-> Some(c),
                     req |-> Some(BuildRequest(CKMT_facade(c), self.base_url,
                                               Some(self.timeout), self.session[1], sessions)),
                     sent |-> 1, event |-> NoneV, outcome |-> NoneV]]
    /\ UNCHANGED <<environ, kind, constructed, ctor, self, sessions, blocks, exited>>

\* Not the code: a client that sends a failed request once more.
CKMT_respond_retrying(t, events) ==
    /\ kind = "CKMT"
    /\ task[t].pc = "awaiting"
    /\ \E ev \in events :
         task' = IF CKMT_request(ev).tag = "raise" /\ task[t].sent = 1
                 THEN [task EXCEPT ![t].sent = 2]
                 ELSE [task EXCEPT ![t].pc = "done", ![t].event = Some(ev),
                                   ![t].outcome = Some(CKMT_request(ev))]
    /\ UNCHANGED <<environ, kind, constructed, ctor, self, sessions, blocks, exited>>

\* The network answers the request of the blocking client.
CKMT_respond(t, events) ==
    /\ kind = "CKMT"
    /\ task[t].pc = "awaiting"
    /\ \E ev \in events :
         task' = [task EXCEPT ![t].pc = "done", ![t].event = Some(ev),
                              ![t].outcome = Some(CKMT_request(ev))]
    /\ UNCHANGED <<environ, kind, constructed, ctor, self, sessions, blocks, exited>>

\* AsyncCKMT._ensure_session: the session the client holds afterwards and
\* the sessions there are.
ensure_session_id == IF IsNone(self.session) THEN Len(sessions) + 1 ELSE self.session[1]

\* Not the code: a client that creates a session at every request.
ensure_session_sessions_unchecked ==
    Append(sessions, NewSession(self.api_key[1], Some(self.timeout), "_ensure_session"))

ensure_session_sessions ==
    IF IsNone(self.session)
    THEN Append(sessions, NewSession(self.api_key[1], Some(self.timeout), "_ensure_session"))
    ELSE sessions

\* A call of a facade operation on the suspending client, up to the point
\* where it awaits the network (async_client.py lines 82-92).  A closed
\* session refuses the request at once.
AsyncCKMT_call(t, calls) ==
    /\ IsAsync
    /\ task[t].pc = "idle"
    /\ sessions' = ensure_session_sessions
    /\ self' = [self EXCEPT !.session = Some(ensure_session_id)]
    /\ \E c \in calls :
         LET req == BuildRequest(AsyncCKMT_facade(c), self.base_url, NoneV,
                                 ensure_session_id, ensure_session_sessions)
         IN task' = [task EXCEPT ![t] =
                       IF req.session_open
                       THEN [pc |-> "awaiting", call |-> Some(c), req |-> Some(req),
                             sent |-> 1, event |-> NoneV, outcome |-> NoneV]
                       ELSE [pc |-> "done", call |-> Some(c), req |-> Some(req),
                             sent |-> 1, event |-> Some(SessionClosed),
                             outcome |-> Some(AsyncCKMT_request(SessionClosed))]]
    /\ UNCHANGED <<environ, kind, constructed, ctor, blocks, exited>>

\* Not the code: a client that closes the shared session when a call raises.
AsyncCKMT_respond_closing(t, events) ==
    /\ kind = "AsyncCKMT"
    /\ task[t].pc = "awaiting"
    /\ \E ev \in events :
         /\ task' = [task EXCEPT ![t].pc = "done", ![t].event = Some(ev),
                                 ![t].outcome = Some(AsyncCKMT_request(ev))]
         /\ sessions' = IF AsyncCKMT_request(ev).tag = "raise"
                        THEN CloseSession(sessions, self.session[1])
                        ELSE sessions
    /\ UNCHANGED <<environ, kind, constructed, ctor, self, blocks, exited>>

\* The network answers the request of the suspending client.
AsyncCKMT_respond(t, events) ==
    /\ kind = "AsyncCKMT"
    /\ task[t].pc = "awaiting"
    /\ \E ev \in events :
         task' = [task EXCEPT ![t].pc = "done", ![t].event = Some(ev),
                              ![t].outcome = Some(AsyncCKMT_request(ev))]
    /\ UNCHANGED <<environ, kind, constructed, ctor, self, sessions, blocks, exited>>

\* The caller takes the outcome of its call and may call again.
Finish(t) ==
    /\ task[t].pc = "done"
    /\ task' = [task EXCEPT ![t] = Idle]
    /\ UNCHANGED <<environ, kind, constructed, ctor, self, sessions, blocks, exited>>

\* ----------------------------------------------------------------- inputs

NoEnv == [CKMT_API_KEY |-> NoneV, CKMT_BASE_URL |-> NoneV]

EXAMPLE == <<"https:", "/", "/", "example.com">>

AllEnvs ==
    [CKMT_API_KEY : {NoneV, Some(<<>>), Some(<<"env-key">>)},
     CKMT_BASE_URL : {NoneV, Some(<<>>), Some(<<"https:", "/", "/", "env.example", "/">>)}]

AllCtors ==
    [api_key : {NoneV, Some(<<>>), Some(<<"arg-key">>)},
     base_url : {NoneV, Some(<<>>), Some(<<"/">>), Some(EXAMPLE),
                 Some(EXAMPLE \o <<"/">>), Some(EXAMPLE \o <<"/", "/">>)},
     timeout : {DEFAULT_TIMEOUT}]

MainCtors ==
    [api_key : {NoneV, Some(<<"arg-key">>)},
     base_url : {NoneV, Some(EXAMPLE \o <<"/">>)},
     timeout : {DEFAULT_TIMEOUT}]

\* A value a caller may give for a parameter: None, the empty text, a text.
Sample(name) ==
    CASE name = "query" -> <<"nginx">>
      [] name \in {"port", "http_status"} -> <<"443">>
      [] name \in {"page", "size"} -> <<"5">>
      [] name = "facets" -> <<"country,asn">>
      [] OTHER -> <<name>>

ArgValues(name) == {NoneV, Some(<<>>), Some(Sample(name))}

\* Every way to give at most MaxGiven of the parameters `names`.
Givens(names) ==
    UNION {{g \in [S -> {NoneV, Some(<<>>)} \cup {Some(Sample(n)) : n \in S}] :
              \A n \in S : g[n] \in ArgValues(n)} :
           S \in {T \in SUBSET names : Cardinality(T) <= MaxGiven}}

Ips == {<<"8.8.8.8">>, <<"10.0.0.0", "/", "8">>}

Call(op, given) == [op |-> op, given |-> given]

AllCalls ==
    {Call("search", g) : g \in Givens(DOMAIN search_defaults)}
    \cup {Call("count", g) : g \in Givens(DOMAIN count_defaults)}
    \cup {Call("facets", g) : g \in Givens(DOMAIN facets_defaults)}
    \cup {Call("ports", g) : g \in Givens(DOMAIN ports_defaults)}
    \cup {Call("host", [ip |-> i]) : i \in Ips}
    \cup {Call("services", <<>>), Call("stats", <<>>)}

MainCalls ==
    {Call("search", [query |-> Some(<<"nginx">>)]), Call("host", [ip |-> <<"8.8.8.8">>]),
     Call("count", <<>>), Call("facets", <<>>), Call("ports", <<>>),
     Call("services", <<>>), Call("stats", <<>>)}

JsonSpaced ==
    <<"{", "\"total\"", ":", " ", "42", ",", " ", "\"matches\"", ":", " ", "[", "]", "}">>

JsonCompact == <<"{", "\"total\"", ":", "42", ",", "\"matches\"", ":", "[", "]", "}">>

\* The structures the remote service sends as JSON.
JsonStructures == {JsonCompact, <<"[", "42", "]">>}

\* The service's encoder, as json.dumps writes a structure: a space after
\* every "," and ":".
RECURSIVE json_dumps(_)
json_dumps(v) ==
    IF v = <<>> THEN <<>>
    ELSE IF Head(v) \in {",", ":"} THEN <<Head(v), " ">> \o json_dumps(Tail(v))
    ELSE <<Head(v)>> \o json_dumps(Tail(v))

\* The bodies of the responses: JSON documents, spaced and compact, and
\* bodies that are no JSON document.
Bodies ==
    JsonStructures \cup {json_dumps(v) : v \in JsonStructures}
    \cup {<<"rate", " ", "limited">>, <<>>, <<" ">>, <<"{", "\"total\"", ":">>}

Statuses == {200, 201, 204, 304, 399, 400, 401, 403, 404, 422, 429, 500, 503}

AllEvents ==
    {Response(st, b, ct) : st \in Statuses, b \in Bodies, ct \in BOOLEAN}
    \cup {Failure(c) : c \in Causes}

OkEvents == {Response(200, JsonCompact, TRUE)}

\* The calls examples/async_usage.py issues together.
ConcCalls == {Call("host", [ip |-> <<"8.8.8.8">>]), Call("stats", <<>>)}

\* One event of each kind of outcome.
ConcEvents ==
    {Response(200, JsonSpaced, TRUE), Response(429, <<"rate", " ", "limited">>, FALSE),
     Failure("timeout")}

\* ---------------------------------------------------------- specifications

\* The program constructs its client.
Construct(ctors) ==
    \/ \E a \in ctors : CKMT_init(a)
    \/ \E a \in ctors : AsyncCKMT_init(a)

\* One caller, "t1", uses the client: each call is made when the one before
\* it has ended.
Use(calls, events) ==
    \/ CKMT_call("t1", calls)
    \/ Quiet /\ AsyncCKMT_call("t1", calls)
    \/ CKMT_respond("t1", events)
    \/ AsyncCKMT_respond("t1", events)
    \/ Finish("t1")

\* The callers "t1" and "t2" use the client: on the suspending client a
\* call may be made while another awaits the network, and the answers come
\* in any order.
UseTogether(calls, events) ==
    \E t \in Tasks :
        \/ CKMT_call(t, calls)
        \/ AsyncCKMT_call(t, calls)
        \/ CKMT_respond(t, events)
        \/ AsyncCKMT_respond(t, events)
        \/ Finish(t)

\* The caller enters and leaves the scoped block of the suspending client.
Scoped ==
    \/ AsyncCKMT_aenter
    \/ AsyncCKMT_aexit(FALSE)
    \/ HasRaised /\ AsyncCKMT_aexit(TRUE)

\* The caller manages the session of the suspending client.
Lifecycle == Scoped \/ AsyncCKMT_close

Init == InitWith({NoEnv})

Next == Construct(MainCtors) \/ Use(MainCalls, AllEvents) \/ Lifecycle

\* The lifecycle and the Request Executor under every response.
Spec == Init /\ [][Next]_vars

InitConfig == InitWith(AllEnvs)

NextConfig == Construct(AllCtors) \/ Use(MainCalls, OkEvents) \/ Lifecycle

\* Construction under every environment and every argument.
SpecConfig == InitConfig /\ [][NextConfig]_vars

NextFacade == Construct(MainCtors) \/ Use(AllCalls, OkEvents)

\* The Endpoint Facade under every combination of arguments.
SpecFacade == Init /\ [][NextFacade]_vars

NextTogether == Construct(MainCtors) \/ UseTogether(ConcCalls, ConcEvents) \/ Lifecycle

\* Calls issued together.
SpecTogether == Init /\ [][NextTogether]_vars

NextGather == Construct(MainCtors) \/ UseTogether(ConcCalls, ConcEvents) \/ Scoped

\* Calls issued together by a caller that manages the session through the
\* scoped block only.  The network ends every wait: it answers, or the
\* transport fails (at the latest when the request's timeout expires).
SpecGatherFair ==
    /\ Init /\ [][NextGather]_vars
    /\ \A t \in Tasks : WF_vars(AsyncCKMT_respond(t, ConcEvents))

\* ------------------------------------------------------------------ claims

Done(t) == task[t].pc = "done"

Answered(t) == Done(t) /\ task[t].event[1].tag = "response"

\* C1's mapping from an error status to the error variant.
ErrorVariant(status) ==
    CASE status = 401 -> "AuthenticationError"
      [] status = 404 -> "NotFoundError"
      [] status = 429 -> "RateLimitError"
      [] status = 422 -> "ValidationError"
      [] OTHER -> "APIError"

\* C1: in both clients a response with status >= 400 makes the call raise
\* exactly the error variant of the mapping (the generic APIError itself for
\* an unmapped status), with status_code the response's status and response
\* its raw body; the generic variant's message contains the body; the error
\* is not re-wrapped as a transport failure.
C1_ErrorStatusClassified ==
    \A t \in Tasks :
        (Answered(t) /\ task[t].event[1].status >= 400) =>
            LET ev == task[t].event[1]
                out == task[t].outcome[1]
            IN /\ out.tag = "raise"
               /\ out.exc = ErrorVariant(ev.status)
               /\ out.status_code = Some(ev.status)
               /\ out.response = Some(ev.text)
               /\ (out.exc = "APIError" => Contains(out.message, ev.text))
               /\ ~Contains(out.message, <<"Request failed: ">>)

\* C1's case: the suspending client has raised RateLimitError for a 429
\* response with the body "rate limited".
C1_Witness ==
    /\ kind = "AsyncCKMT"
    /\ Answered("t1")
    /\ task["t1"].event[1].status = 429
    /\ task["t1"].event[1].text = <<"rate", " ", "limited">>
    /\ task["t1"].outcome[1].exc = "RateLimitError"

\* The structure the service encoded as `text`, when it is one of its JSON
\* documents (Optional).
Sent(text) ==
    LET vs == {v \in JsonStructures : text \in {v, json_dumps(v)}}
    IN IF vs = {} THEN NoneV ELSE Some(CHOOSE v \in vs : TRUE)

C3_TransportFailureIsAPIError ==
    \A t \in Tasks :
        (Done(t) /\ task[t].event[1].tag = "failure") =>
            LET out == task[t].outcome[1]
            IN /\ out.tag = "raise"
               /\ out.exc = "APIError"
               /\ out.status_code = NoneV
               /\ Contains(out.message, Describe(task[t].event[1].cause))

Issued(t) == ~IsNone(task[t].req)

OpenSessions == {i \in 1..Len(sessions) : sessions[i].open}

\* C4: the suspending client never issues a request through a closed
\* session: after close() or the exit of the scoped block, the next request
\* goes through a session that is open.
C4_NoRequestThroughClosedSession ==
    \A t \in Tasks :
        (kind = "AsyncCKMT" /\ Issued(t)) => task[t].req[1].session_open

\* C5: at most one session created by the client is open.
C5_AtMostOneOpenSession == Cardinality(OpenSessions) <= 1

\* C6: once an `async with` block of the suspending client has been left,
\* normally, by return or by an error, the session created on its entry is
\* closed.
C6_BlockSessionClosedOnExit ==
    \A e \in exited : ~sessions[e.session].open

\* C7: construction of either client fails with ValueError exactly when
\* neither the api_key argument nor CKMT_API_KEY holds a non-empty value,
\* and then no session exists and no request is issued; otherwise it
\* succeeds with the argument's key when one is given and the environment's
\* key when none is.
C7_CredentialsRequiredAtConstruction ==
    constructed # "absent" =>
        LET arg == ctor[1].api_key
            env == environ.CKMT_API_KEY
        IN /\ constructed = "ValueError" <=> (~Truthy(arg) /\ ~Truthy(env))
           /\ constructed = "ValueError" =>
                 /\ sessions = <<>>
                 /\ \A t \in Tasks : ~Issued(t)
           /\ constructed = "ok" =>
                 /\ self.api_key = IF Truthy(arg) THEN arg ELSE env
                 /\ \A i \in 1..Len(sessions) :
                        sessions[i].Authorization = <<"Bearer ">> \o self.api_key[1]

\* C7's case: a constructor given an empty api_key, with no CKMT_API_KEY
\* set, has raised ValueError.
C7_Witness ==
    /\ constructed = "ValueError"
    /\ ctor[1].api_key = Some(<<>>)
    /\ IsNone(environ.CKMT_API_KEY)

\* C7's other case: the argument's key wins over the environment's.
C7_WitnessPrecedence ==
    /\ constructed = "ok"
    /\ Truthy(ctor[1].api_key)
    /\ Truthy(environ.CKMT_API_KEY)
    /\ self.api_key = ctor[1].api_key

\* The base URL the client is configured with: the argument, else the
\* CKMT_BASE_URL value, else the default.
ConfiguredBaseUrl ==
    IF Truthy(ctor[1].base_url) THEN ctor[1].base_url[1]
    ELSE IF ~IsNone(environ.CKMT_BASE_URL) THEN environ.CKMT_BASE_URL[1]
    ELSE <<"https:", "/", "/", "api.ckmt.io">>

AllSlashes(s) == \A i \in 1..Len(s) : s[i] = "/"

\* The fixed path of each operation, by C10's table.
PathOf(c) ==
    CASE c.op = "search" -> <<"/", "v1", "/", "search">>
      [] c.op = "host" -> <<"/", "v1", "/", "search", "/", "host", "/">> \o c.given.ip
      [] c.op = "count" -> <<"/", "v1", "/", "search", "/", "count">>
      [] c.op = "facets" -> <<"/", "v1", "/", "search", "/", "facets">>
      [] c.op = "ports" -> <<"/", "v1", "/", "search", "/", "ports">>
      [] c.op = "services" -> <<"/", "v1", "/", "search", "/", "services">>
      [] c.op = "stats" -> <<"/", "v1", "/", "search", "/", "stats">>

\* C8: the URL of every request is the configured base URL without its
\* trailing slashes, followed by the operation's path: the part before the
\* path does not end with a slash, so the join holds no double slash.
C8_UrlJoinsBaseAndPath ==
    \A t \in Tasks :
        Issued(t) =>
            LET url == task[t].req[1].url
                path == PathOf(task[t].call[1])
                n == Len(url) - Len(path)
            IN /\ n >= 0
               /\ SubSeq(url, n + 1, Len(url)) = path
               /\ n <= Len(ConfiguredBaseUrl)
               /\ SubSeq(url, 1, n) = SubSeq(ConfiguredBaseUrl, 1, n)
               /\ AllSlashes(SubSeq(ConfiguredBaseUrl, n + 1, Len(ConfiguredBaseUrl)))
               /\ (n > 0 => url[n] # "/")
               /\ url[n + 1] = "/"

\* C8's case: a client constructed with the base URL "https://example.com/"
\* has issued a request whose URL starts "https://example.com/v1".
C8_Witness ==
    /\ ctor # NoneV
    /\ ctor[1].base_url = Some(<<"https:", "/", "/", "example.com", "/">>)
    /\ Issued("t1")
    /\ SubSeq(task["t1"].req[1].url, 1, 6) = <<"https:", "/", "/", "example.com", "/", "v1">>

FilterOps == {"search", "count", "facets", "ports"}

\* The parameters an operation with filters sends when the caller gives
\* none, by C9: name and value.
DefaultedParams(op) ==
    CASE op = "search" -> [page |-> <<"1">>, size |-> <<"10">>]
      [] op = "count" -> <<>>
      [] op = "facets" -> [facets |-> <<"country,port,service,technology">>]
      [] op = "ports" -> [size |-> <<"100">>]

\* C9: for search, count, facets and ports in both clients, the query
\* parameters of the request are exactly the arguments given with a value
\* other than None, with the values given, and the defaulted parameters the
\* caller does not give; an argument given as None is no parameter.
C9_ParamsAreExactlyTheSetArguments ==
    \A t \in Tasks :
        (Issued(t) /\ task[t].call[1].op \in FilterOps) =>
            LET given == task[t].call[1].given
                dflt == DefaultedParams(task[t].call[1].op)
                set == {k \in DOMAIN given : given[k] # NoneV}
                kept == {k \in DOMAIN dflt : k \notin DOMAIN given}
                params == task[t].req[1].params
            IN /\ ~IsNone(params)
               /\ DOMAIN params[1] = set \cup kept
               /\ \A k \in set : params[1][k] = given[k][1]
               /\ \A k \in kept : params[1][k] = dflt[k]

\* C9's case: search(query="", page=None) has issued a request whose
\* parameters are the empty query and the default size, and no page.
C9_Witness ==
    /\ Issued("t1")
    /\ task["t1"].call[1] = Call("search", [query |-> Some(<<>>), page |-> NoneV])
    /\ task["t1"].req[1].params = Some([query |-> <<>>, size |-> <<"10">>])

\* C10: every operation of both clients issues a GET request for its fixed
\* path with no body; host, services and stats send no query parameters.
C10_FixedMethodAndPath ==
    \A t \in Tasks :
        Issued(t) =>
            LET c == task[t].call[1]
                req == task[t].req[1]
            IN /\ req.method = "GET"
               /\ req.url = self.base_url \o PathOf(c)
               /\ IsNone(req.json)
               /\ (c.op \in {"host", "services", "stats"} => IsNone(req.params))

\* C10's case: host("8.8.8.8") on the suspending client has issued
\* GET /v1/search/host/8.8.8.8 with no query parameters.
C10_Witness ==
    /\ kind = "AsyncCKMT"
    /\ Issued("t1")
    /\ task["t1"].call[1] = Call("host", [ip |-> <<"8.8.8.8">>])
    /\ task["t1"].req[1].method = "GET"
    /\ task["t1"].req[1].url =
           <<"https:", "/", "/", "api.ckmt.io", "/", "v1", "/", "search", "/", "host", "/", "8.8.8.8">>
    /\ IsNone(task["t1"].req[1].params)

\* A call of the suspending client whose response has arrived has the outcome
\* of that response alone: the error variant of its status, or the structure
\* of its JSON body.
C11_OutcomeOfOwnResponse ==
    \A t \in Tasks :
        (kind = "AsyncCKMT" /\ Answered(t)) =>
            LET ev == task[t].event[1]
                out == task[t].outcome[1]
            IN /\ ev.status >= 400 =>
                    /\ out.tag = "raise"
                    /\ out.exc = ErrorVariant(ev.status)
                    /\ out.status_code = Some(ev.status)
                    /\ out.response = Some(ev.text)
               /\ (ev.status < 400 /\ ev.json_ctype /\ ~IsNone(Sent(ev.text))) =>
                    out = Return(Sent(ev.text)[1])

\* The step that completes the call of one task leaves the call of every
\* other task, and the shared session, as they were.
C11_CompletionLeavesOthersAlone ==
    \A t \in Tasks : \A u \in Tasks \ {t} :
        (kind = "AsyncCKMT" /\ task[t].pc = "awaiting" /\ task'[t].pc = "done") =>
            /\ task'[u] = task[u]
            /\ sessions' = sessions
            /\ self'.session = self.session

\* C11: when calls are issued together on one suspending client and their
\* waits on the network end in any order, every call completes, each with
\* the outcome of its own response; a call that raises neither cancels nor
\* changes another call, and leaves the shared session open for it.
C11_CallsTogetherAreIndependent ==
    /\ []C11_OutcomeOfOwnResponse
    /\ [][C11_CompletionLeavesOthersAlone]_vars
    /\ \A t \in Tasks : (kind = "AsyncCKMT" /\ task[t].pc = "awaiting") ~> Done(t)

\* C11's case: of two calls issued together through one session, "t1" has
\* raised RateLimitError for its 429 response and "t2" has returned the
\* structure of its 200 response; the session is still open.
C11_Witness ==
    /\ kind = "AsyncCKMT"
    /\ Answered("t1") /\ Answered("t2")
    /\ task["t1"].event[1].status = 429
    /\ task["t1"].outcome[1].exc = "RateLimitError"
    /\ task["t2"].event[1].status = 200
    /\ task["t2"].outcome[1] = Return(JsonCompact)
    /\ task["t1"].req[1].session = task["t2"].req[1].session
    /\ sessions[task["t2"].req[1].session].open

\* What the other client's Request Executor makes of the same event.
OtherExecutor(ev) == IF kind = "CKMT" THEN AsyncCKMT_request(ev) ELSE CKMT_request(ev)

\* C12: for every response (any status; a JSON document as body when the
\* status is below 400) the Request Executors of the blocking and of the
\* suspending client classify alike: both return the same structure, or both
\* raise the same error with the same message, status_code and response.
C12_ExecutorsClassifyAlike ==
    \A t \in Tasks :
        (/\ Answered(t)
         /\ (task[t].event[1].status < 400 => ~IsNone(Sent(task[t].event[1].text)))) =>
            task[t].outcome[1] = OtherExecutor(task[t].event[1])

\* The request of the call failed: an error status, a transport failure,
\* or a session that refused it.
RequestFailed(t) ==
    /\ ~IsNone(task[t].event)
    /\ \/ task[t].event[1].tag \in {"failure", "closed"}
       \/ task[t].event[1].status >= 400

\* C13: in both clients a call in progress or completed has called
\* session.request exactly once, whatever its outcome and whatever calls
\* came before or run beside it; once its request has failed the call is
\* over (no second request) and its outcome is an error, never a result.
C13_OneRequestPerCall ==
    \A t \in Tasks :
        /\ task[t].pc # "idle" => (Issued(t) /\ task[t].sent = 1)
        /\ RequestFailed(t) => (Done(t) /\ task[t].outcome[1].tag = "raise")

\* C13's case: two identical calls on one client have issued one request
\* each; the request of "t1" timed out, and the call raised after that one
\* request.
C13_Witness ==
    /\ task["t1"].call = Some(Call("stats", <<>>))
    /\ task["t2"].call = task["t1"].call
    /\ task["t1"].sent = 1 /\ task["t2"].sent = 1
    /\ Done("t1")
    /\ task["t1"].event[1] = Failure("timeout")
    /\ task["t1"].outcome[1].tag = "raise"

\* C13's case on the blocking client: a call answered with status 429 has
\* raised after its one request.
C13_WitnessBlocking ==
    /\ kind = "CKMT"
    /\ Answered("t1")
    /\ task["t1"].event[1].status = 429
    /\ task["t1"].sent = 1
    /\ task["t1"].outcome[1].tag = "raise"

\* The suspending client has never entered its scoped block.
OnlyRequests == \A i \in 1..Len(sessions) : sessions[i].by # "__aenter__"

\* C14: a suspending client used only through requests holds no session
\* until its first request and exactly one session, created by
\* _ensure_session and held by the client, from then on, however many calls
\* were issued one after another or together; the blocking client holds
\* exactly one session, created by its constructor.
C14_OneLazySession ==
    /\ (kind = "AsyncCKMT" /\ constructed = "ok" /\ OnlyRequests) =>
          IF \A t \in Tasks : ~Issued(t)
          THEN Len(sessions) <= 1
          ELSE /\ Len(sessions) = 1
               /\ sessions[1].by = "_ensure_session"
               /\ self.session = Some(1)
               /\ \A t \in Tasks : Issued(t) => task[t].req[1].session = 1
    /\ (kind = "AsyncCKMT" /\ constructed = "ok" /\ OnlyRequests) =>
          (IsNone(self.session) <=> sessions = <<>>)
    /\ (kind = "CKMT" /\ constructed = "ok") =>
          /\ Len(sessions) = 1
          /\ sessions[1].by = "__init__"
          /\ self.session = Some(1)

\* C14's case: two calls issued together on a suspending client that never
\* entered its scoped block await the network through the one session that
\* the first of them created.
C14_Witness ==
    /\ kind = "AsyncCKMT"
    /\ OnlyRequests
    /\ task["t1"].pc = "awaiting" /\ task["t2"].pc = "awaiting"
    /\ Len(sessions) = 1
    /\ sessions[1].by = "_ensure_session"
    /\ task["t1"].req[1].session = 1 /\ task["t2"].req[1].session = 1

====
